---- MODULE Spec2Model ----
(***************************************************************************)
(* Model of the tile-suggestion voting engine of MesoGen, as reproduced in *)
(* tests/check_tile_suggestion.py: the 16 transforms, transform_tile,      *)
(* hash_tile, consolidateVotes, findBest2, importVotes and the Score       *)
(* ordering.                                                               *)
(*                                                                         *)
(* Python values are modelled as follows:                                  *)
(*   list            -> sequence                                           *)
(*   str             -> sequence of one-character strings                  *)
(*   dict            -> function (its domain is the key set)               *)
(*   insertion order -> a separate sequence of keys where the code         *)
(*                      iterates over the dict and the order is observable *)
(*   None / value    -> <<>> / <<value>>                                   *)
(***************************************************************************)
EXTENDS Integers, Sequences, FiniteSets, TLC

VARIABLES
    pc,                       \* position of the running script
    \* consolidateVotes / findBest2 / importVotes, in the order of main()
    neighborhood_labels,      \* input: list of 4-slot neighborhoods
    possibilities,            \* candidates built by consolidateVotes
    votes,                    \* k -> (tr -> count)
    consolidated_votes,       \* ordered dict k -> count
    tile_map,                 \* k -> tile
    result,                   \* findBest2 on the live consolidation
    raw_votes,                \* vote records (data['votes'])
    check_votes,              \* importVotes: k -> (tr -> count)
    check_consolidated_votes, \* importVotes: ordered dict k -> count
    recheck,                  \* findBest2 on the imported maps
    \* Score.__gt__
    scoreA, scoreB, gt,
    \* transform_tile
    tile, tr1, tr2, out1, out2,
    \* hash_tile
    tileA, tileB, keyA, keyB,
    \* computations running at the same time, each with its own locals
    procs

vars == << pc, neighborhood_labels, possibilities, votes, consolidated_votes,
           tile_map, result, raw_votes, check_votes, check_consolidated_votes,
           recheck, scoreA, scoreB, gt, tile, tr1, tr2, out1, out2,
           tileA, tileB, keyA, keyB, procs >>

engineVars == << neighborhood_labels, possibilities, votes, consolidated_votes,
                 tile_map, result, raw_votes, check_votes,
                 check_consolidated_votes, recheck >>
scoreVars == << scoreA, scoreB, gt >>
transformVars == << tile, tr1, tr2, out1, out2 >>
hashVars == << tileA, tileB, keyA, keyB >>
procVars == << procs >>

(***************************************************************************)
(* Bounds of the model                                                     *)
(***************************************************************************)
MaxNeighborhoods == 2   \* neighborhoods in the input list
MaxExtra == 2           \* labels beyond one per slot, in a single neighborhood
MaxCandidateExtra == 3  \* the same, where only the candidates are built
MaxRecords == 2         \* vote records handed to importVotes
MaxEntries == 2         \* (transform, count) entries over all records
MaxCount == 1           \* largest count in an imported entry
MaxScoreField == 5      \* largest field of a compared Score
MaxTileLabel == 2       \* largest |label| of a transformed tile

\* Neighbour labels: one one-digit and one two-digit label, of both signs
\* once negated and flipped.
Labels == {1, -11}

(***************************************************************************)
(* Python helpers                                                          *)
(***************************************************************************)
None == << >>
Some(x) == << x >>

EmptyDict == << >>

\* d[k] = v on a dict
DictPut(d, k, v) == (k :> v) @@ d

\* d[k] on a defaultdict, without the insertion
DictGet(d, k, default) == IF k \in DOMAIN d THEN d[k] ELSE default

\* an insertion-ordered dict: the keys in insertion order, and the mapping
EmptyOrderedDict == [keys |-> << >>, map |-> EmptyDict]

OrderedPut(d, k, v) ==
    [keys |-> IF k \in DOMAIN d.map THEN d.keys ELSE Append(d.keys, k),
     map |-> DictPut(d.map, k, v)]

RECURSIVE SumOver(_, _)
SumOver(d, keys) ==
    IF keys = {} THEN 0
    ELSE LET k == CHOOSE x \in keys : TRUE
         IN d[k] + SumOver(d, keys \ {k})

\* sum of the values of a dict
SumValues(d) == SumOver(d, DOMAIN d)

DigitChar == << "0", "1", "2", "3", "4", "5", "6", "7", "8", "9" >>

RECURSIVE Digits(_)
Digits(n) ==
    IF n < 10 THEN << DigitChar[n + 1] >>
    ELSE Digits(n \div 10) \o << DigitChar[(n % 10) + 1] >>

\* str(n) for an int n
Str(n) == IF n < 0 THEN << "-" >> \o Digits(-n) ELSE Digits(n)

(***************************************************************************)
(* Transform                                                               *)
(***************************************************************************)
Transform(fx, fy, rot) == [flipX |-> fx, flipY |-> fy, rotation |-> rot]

isIdentity(tr) == ~tr.flipX /\ ~tr.flipY /\ tr.rotation = 0

\* computeAllTransforms with range(3) for the rotations
computeAllTransforms_three_rotations ==
    LET s0 == << Transform(FALSE, FALSE, 0) >>
        s1 == [i \in 1..(2 * Len(s0)) |->
                 LET tr == s0[((i - 1) \div 2) + 1]
                 IN IF (i - 1) % 2 = 0 THEN tr
                    ELSE [tr EXCEPT !.flipX = TRUE]]
        s2 == [i \in 1..(2 * Len(s1)) |->
                 LET tr == s1[((i - 1) \div 2) + 1]
                 IN IF (i - 1) % 2 = 0 THEN tr
                    ELSE [tr EXCEPT !.flipY = TRUE]]
        s3 == [i \in 1..(3 * Len(s2)) |->
                 [s2[((i - 1) \div 3) + 1] EXCEPT !.rotation = (i - 1) % 3]]
    IN s3

\* computeAllTransforms expanding flipY before flipX
computeAllTransforms_flipY_first ==
    LET s0 == << Transform(FALSE, FALSE, 0) >>
        s1 == [i \in 1..(2 * Len(s0)) |->
                 LET tr == s0[((i - 1) \div 2) + 1]
                 IN IF (i - 1) % 2 = 0 THEN tr
                    ELSE [tr EXCEPT !.flipY = TRUE]]
        s2 == [i \in 1..(2 * Len(s1)) |->
                 LET tr == s1[((i - 1) \div 2) + 1]
                 IN IF (i - 1) % 2 = 0 THEN tr
                    ELSE [tr EXCEPT !.flipX = TRUE]]
        s3 == [i \in 1..(4 * Len(s2)) |->
                 [s2[((i - 1) \div 4) + 1] EXCEPT !.rotation = (i - 1) % 4]]
    IN s3

\* the list built by computeAllTransforms: each stage expands the previous one
computeAllTransforms ==
    LET s0 == << Transform(FALSE, FALSE, 0) >>
        s1 == [i \in 1..(2 * Len(s0)) |->
                 LET tr == s0[((i - 1) \div 2) + 1]
                 IN IF (i - 1) % 2 = 0 THEN tr
                    ELSE [tr EXCEPT !.flipX = TRUE]]
        s2 == [i \in 1..(2 * Len(s1)) |->
                 LET tr == s1[((i - 1) \div 2) + 1]
                 IN IF (i - 1) % 2 = 0 THEN tr
                    ELSE [tr EXCEPT !.flipY = TRUE]]
        s3 == [i \in 1..(4 * Len(s2)) |->
                 [s2[((i - 1) \div 4) + 1] EXCEPT !.rotation = (i - 1) % 4]]
    IN s3

RECURSIVE CheckForRot(_, _, _)
\* for rot in range(4): all_transforms.append(Transform(fx, fy, rot))
CheckForRot(fx, fy, rot) ==
    IF rot >= 4 THEN << >>
    ELSE << Transform(fx, fy, rot) >> \o CheckForRot(fx, fy, rot + 1)

RECURSIVE CheckForFy(_, _, _)
\* for fy in [False, True]
CheckForFy(bools, fx, j) ==
    IF j > Len(bools) THEN << >>
    ELSE CheckForRot(fx, bools[j], 0) \o CheckForFy(bools, fx, j + 1)

RECURSIVE CheckForFx(_, _)
\* for fx in [False, True]
CheckForFx(bools, i) ==
    IF i > Len(bools) THEN << >>
    ELSE CheckForFy(bools, bools[i], 1) \o CheckForFx(bools, i + 1)

computeAllTransforms_check == CheckForFx(<< FALSE, TRUE >>, 1)

all_transforms == computeAllTransforms

check_all_transforms == computeAllTransforms_check

(***************************************************************************)
(* hash_tile and transform_tile                                            *)
(***************************************************************************)
RECURSIVE JoinStr(_)
\* "".join(map(str, t))
JoinStr(t) == IF t = << >> THEN << >> ELSE Str(Head(t)) \o JoinStr(Tail(t))

hash_tile(t) == JoinStr(t)

\* flipX with the index of the last label mistyped
flipX_typo(t) == << t[3], -t[2], t[1], -t[3] >>

\* tiles are 0-indexed in the code and 1-indexed here
flipX(t) == << t[3], -t[2], t[1], -t[4] >>

flipY(t) == << -t[1], t[4], -t[3], t[2] >>

rotate(t, r) ==
    << t[((0 + r) % 4) + 1],
       t[((1 + r) % 4) + 1],
       t[((2 + r) % 4) + 1],
       t[((3 + r) % 4) + 1] >>

\* transform_tile with flips that move the labels and keep their signs
transform_tile_unsigned(t, transform) ==
    LET a == IF transform.flipX THEN << t[3], t[2], t[1], t[4] >> ELSE t
        b == IF transform.flipY THEN << a[1], a[4], a[3], a[2] >> ELSE a
    IN rotate(b, transform.rotation)

\* transform_tile rotating before it flips
transform_tile_rotate_first(t, transform) ==
    LET a == rotate(t, transform.rotation)
        b == IF transform.flipX THEN << a[3], -a[2], a[1], -a[4] >> ELSE a
    IN IF transform.flipY THEN << -b[1], b[4], -b[3], b[2] >> ELSE b

transform_tile(t, transform) ==
    LET a == IF transform.flipX THEN flipX(t) ELSE t
        b == IF transform.flipY THEN flipY(a) ELSE a
    IN rotate(b, transform.rotation)

(***************************************************************************)
(* Score                                                                   *)
(***************************************************************************)
Score(total, untransformed, flipped) ==
    [total_votes |-> total, untransformed_votes |-> untransformed,
     flipped_edges |-> flipped]

\* Score.__gt__ with the last two criteria in the other order
ScoreGtUntransformedFirst(self, other) ==
    IF self.total_votes > other.total_votes THEN TRUE
    ELSE IF self.total_votes < other.total_votes THEN FALSE
    ELSE IF self.untransformed_votes > other.untransformed_votes THEN TRUE
    ELSE IF self.untransformed_votes < other.untransformed_votes THEN FALSE
    ELSE IF self.flipped_edges < other.flipped_edges THEN TRUE
    ELSE FALSE

\* Score.__gt__
ScoreGt(self, other) ==
    IF self.total_votes > other.total_votes THEN TRUE
    ELSE IF self.total_votes < other.total_votes THEN FALSE
    ELSE IF self.flipped_edges < other.flipped_edges THEN TRUE
    ELSE IF self.flipped_edges > other.flipped_edges THEN FALSE
    ELSE IF self.untransformed_votes > other.untransformed_votes THEN TRUE
    ELSE IF self.untransformed_votes < other.untransformed_votes THEN FALSE
    ELSE FALSE

(***************************************************************************)
(* consolidateVotes                                                        *)
(***************************************************************************)
RECURSIVE ForLabel3Unnegated(_, _, _, _, _)
\* the innermost loop appending the last label as it is
ForLabel3Unnegated(neighborhood, label0, label1, label2, i) ==
    IF i > Len(neighborhood[4]) THEN << >>
    ELSE << << -label0, -label1, -label2, neighborhood[4][i] >> >>
         \o ForLabel3Unnegated(neighborhood, label0, label1, label2, i + 1)

RECURSIVE ForLabel3(_, _, _, _, _)
\* for label3 in neighborhood[3]: possibilities.append([...])
ForLabel3(neighborhood, label0, label1, label2, i) ==
    IF i > Len(neighborhood[4]) THEN << >>
    ELSE << << -label0, -label1, -label2, -neighborhood[4][i] >> >>
         \o ForLabel3(neighborhood, label0, label1, label2, i + 1)

RECURSIVE ForLabel2(_, _, _, _)
\* for label2 in neighborhood[2]
ForLabel2(neighborhood, label0, label1, i) ==
    IF i > Len(neighborhood[3]) THEN << >>
    ELSE ForLabel3(neighborhood, label0, label1, neighborhood[3][i], 1)
         \o ForLabel2(neighborhood, label0, label1, i + 1)

RECURSIVE ForLabel1(_, _, _)
\* for label1 in neighborhood[1]
ForLabel1(neighborhood, label0, i) ==
    IF i > Len(neighborhood[2]) THEN << >>
    ELSE ForLabel2(neighborhood, label0, neighborhood[2][i], 1)
         \o ForLabel1(neighborhood, label0, i + 1)

RECURSIVE ForLabel0(_, _)
\* for label0 in neighborhood[0]
ForLabel0(neighborhood, i) ==
    IF i > Len(neighborhood[1]) THEN << >>
    ELSE ForLabel1(neighborhood, neighborhood[1][i], 1)
         \o ForLabel0(neighborhood, i + 1)

RECURSIVE ForNeighborhood(_, _)
\* for neighborhood in neighborhood_labels
ForNeighborhood(labels, n) ==
    IF n > Len(labels) THEN << >>
    ELSE ForLabel0(labels[n], 1) \o ForNeighborhood(labels, n + 1)

Possibilities(labels) == ForNeighborhood(labels, 1)

\* every candidate under every transform, candidates outermost
AllPossibilities(poss) ==
    [i \in 1..(Len(poss) * Len(all_transforms)) |->
        LET t == poss[((i - 1) \div Len(all_transforms)) + 1]
            tr == all_transforms[((i - 1) % Len(all_transforms)) + 1]
        IN [tile |-> transform_tile(t, tr), tr |-> tr]]

\* the accumulation counting a (signature, transform) pair only once
CountVoteOnce(acc, t, tr) ==
    LET k == hash_tile(t)
        sub == DictGet(acc.votes, k, EmptyDict)
    IN [votes |-> DictPut(acc.votes, k, DictPut(sub, tr, DictGet(sub, tr, 0) + 1)),
        consolidated_votes |->
            OrderedPut(acc.consolidated_votes, k,
                       DictGet(acc.consolidated_votes.map, k, 0)
                       + (IF tr \in DOMAIN sub THEN 0 ELSE 1)),
        tile_map |-> DictPut(acc.tile_map, k, t)]

\* the accumulation recording that a transform produced the signature, not
\* how many times
CountVoteSetFlag(acc, t, tr) ==
    LET k == hash_tile(t)
        sub == DictGet(acc.votes, k, EmptyDict)
    IN [votes |-> DictPut(acc.votes, k, DictPut(sub, tr, 1)),
        consolidated_votes |->
            OrderedPut(acc.consolidated_votes, k,
                       DictGet(acc.consolidated_votes.map, k, 0) + 1),
        tile_map |-> DictPut(acc.tile_map, k, t)]

\* the body of the accumulation loop, for one (tile, tr)
CountVote(acc, t, tr) ==
    LET k == hash_tile(t)
        sub == DictGet(acc.votes, k, EmptyDict)
    IN [votes |-> DictPut(acc.votes, k, DictPut(sub, tr, DictGet(sub, tr, 0) + 1)),
        consolidated_votes |->
            OrderedPut(acc.consolidated_votes, k,
                       DictGet(acc.consolidated_votes.map, k, 0) + 1),
        tile_map |-> DictPut(acc.tile_map, k, t)]

RECURSIVE CountVotes(_, _, _, _)
\* for tile, tr in all_possibilities: the iterations lo..hi in order, from acc.
\* The range is halved to keep the evaluation shallow; the second disjunct
\* never holds and only makes TLC evaluate acc before descending.
CountVotes(all_poss, lo, hi, acc) ==
    IF lo > hi \/ Len(acc.consolidated_votes.keys) < 0 THEN acc
    ELSE IF lo = hi THEN CountVote(acc, all_poss[lo].tile, all_poss[lo].tr)
    ELSE LET mid == (lo + hi) \div 2
             left == CountVotes(all_poss, lo, mid, acc)
         IN CountVotes(all_poss, mid + 1, hi, left)

consolidateVotes(labels) ==
    LET all_possibilities == AllPossibilities(Possibilities(labels))
    IN CountVotes(all_possibilities, 1, Len(all_possibilities),
                  [votes |-> EmptyDict,
                   consolidated_votes |-> EmptyOrderedDict,
                   tile_map |-> EmptyDict])

(***************************************************************************)
(* findBest2                                                               *)
(***************************************************************************)
\* the Score built for signature k
ComputeScore(vts, count, tmap, k) ==
    LET sub == DictGet(vts, k, EmptyDict)
    IN Score(SumValues(sub),
             IF \E tr \in DOMAIN sub : isIdentity(tr) THEN count ELSE 0,
             Cardinality({i \in DOMAIN tmap[k] : tmap[k][i] < 0}))

\* the loop body without the hand-over of the old best to second-best
ScanStepNoDemote(st, vts, count, tmap, k) ==
    LET score == ComputeScore(vts, count, tmap, k)
        touched == DictPut(st.votes, k, DictGet(st.votes, k, EmptyDict))
    IN IF score.total_votes # count
       THEN [st EXCEPT !.status = "AssertionError", !.votes = touched]
       ELSE IF st.best_score = None \/ ScoreGt(score, st.best_score[1])
       THEN [st EXCEPT !.votes = touched,
                       !.best_score = Some(score),
                       !.best = Some(k)]
       ELSE IF st.second_best_score = None \/ ScoreGt(score, st.second_best_score[1])
       THEN [st EXCEPT !.votes = touched,
                       !.second_best_score = Some(score),
                       !.second_best = Some(k)]
       ELSE [st EXCEPT !.votes = touched]

\* the loop body taking a signature as the new best unless the best beats it
ScanStepTiesDisplace(st, vts, count, tmap, k) ==
    LET score == ComputeScore(vts, count, tmap, k)
        touched == DictPut(st.votes, k, DictGet(st.votes, k, EmptyDict))
    IN IF score.total_votes # count
       THEN [st EXCEPT !.status = "AssertionError", !.votes = touched]
       ELSE IF st.best_score = None \/ ~ScoreGt(st.best_score[1], score)
       THEN [st EXCEPT !.votes = touched,
                       !.second_best_score = st.best_score,
                       !.second_best = st.best,
                       !.best_score = Some(score),
                       !.best = Some(k)]
       ELSE IF st.second_best_score = None \/ ScoreGt(score, st.second_best_score[1])
       THEN [st EXCEPT !.votes = touched,
                       !.second_best_score = Some(score),
                       !.second_best = Some(k)]
       ELSE [st EXCEPT !.votes = touched]

\* the loop body handing the best over to second-best after replacing it
ScanStepDemoteAfter(st, vts, count, tmap, k) ==
    LET score == ComputeScore(vts, count, tmap, k)
        touched == DictPut(st.votes, k, DictGet(st.votes, k, EmptyDict))
    IN IF score.total_votes # count
       THEN [st EXCEPT !.status = "AssertionError", !.votes = touched]
       ELSE IF st.best_score = None \/ ScoreGt(score, st.best_score[1])
       THEN [st EXCEPT !.votes = touched,
                       !.best_score = Some(score),
                       !.best = Some(k),
                       !.second_best_score = Some(score),
                       !.second_best = Some(k)]
       ELSE IF st.second_best_score = None \/ ScoreGt(score, st.second_best_score[1])
       THEN [st EXCEPT !.votes = touched,
                       !.second_best_score = Some(score),
                       !.second_best = Some(k)]
       ELSE [st EXCEPT !.votes = touched]

\* one iteration of the loop over consolidated_votes.items()
ScanStep(st, vts, count, tmap, k) ==
    LET score == ComputeScore(vts, count, tmap, k)
        \* votes[k] on the defaultdict creates the key
        touched == DictPut(st.votes, k, DictGet(st.votes, k, EmptyDict))
    IN IF score.total_votes # count
       THEN [st EXCEPT !.status = "AssertionError", !.votes = touched]
       ELSE IF st.best_score = None \/ ScoreGt(score, st.best_score[1])
       THEN [st EXCEPT !.votes = touched,
                       !.second_best_score = st.best_score,
                       !.second_best = st.best,
                       !.best_score = Some(score),
                       !.best = Some(k)]
       ELSE IF st.second_best_score = None \/ ScoreGt(score, st.second_best_score[1])
       THEN [st EXCEPT !.votes = touched,
                       !.second_best_score = Some(score),
                       !.second_best = Some(k)]
       ELSE [st EXCEPT !.votes = touched]

RECURSIVE Scan(_, _, _, _, _)
\* for k, count in consolidated_votes.items(): the iterations lo..hi in order,
\* from st; an assertion failure ends the loop
Scan(cons, tmap, lo, hi, st) ==
    IF lo > hi \/ st.status # "ok" THEN st
    ELSE IF lo = hi
    THEN ScanStep(st, st.votes, cons.map[cons.keys[lo]], tmap, cons.keys[lo])
    ELSE LET mid == (lo + hi) \div 2
             left == Scan(cons, tmap, lo, mid, st)
         IN Scan(cons, tmap, mid + 1, hi, left)

\* findBest2 taking the first signature as the initial best
findBest2_from_first(vts, cons, tmap) ==
    IF Len(cons.keys) = 0
    THEN [status |-> "IndexError", votes |-> vts,
          best |-> None, best_score |-> None,
          second_best |-> None, second_best_score |-> None]
    ELSE Scan(cons, tmap, 2, Len(cons.keys),
              [status |-> "ok", votes |-> vts,
               best |-> Some(cons.keys[1]),
               best_score |-> Some(ComputeScore(vts, cons.map[cons.keys[1]], tmap,
                                                cons.keys[1])),
               second_best |-> None, second_best_score |-> None])

\* status "ok": the four values returned; "AssertionError": the assert of the
\* consistency check failed.  votes is the votes argument after the call.
findBest2(vts, cons, tmap) ==
    Scan(cons, tmap, 1, Len(cons.keys),
         [status |-> "ok", votes |-> vts,
          best |-> None, best_score |-> None,
          second_best |-> None, second_best_score |-> None])

Returned(r) ==
    << r.best, r.best_score, r.second_best, r.second_best_score >>

(***************************************************************************)
(* importVotes                                                             *)
(***************************************************************************)
\* the entry loop assigning the signature's total instead of adding to it
ImportEntryOverwrite(st, k, entry) ==
    LET tr == Transform(entry.transform.flipX, entry.transform.flipY,
                        entry.transform.rotation)
        count == entry.count
        sub == DictGet(st.check_votes, k, EmptyDict)
        seen == DictGet(sub, tr, 0)
    IN IF seen # 0
       THEN [st EXCEPT !.status = "AssertionError",
                       !.check_votes = DictPut(st.check_votes, k, DictPut(sub, tr, seen))]
       ELSE [st EXCEPT
               !.check_votes = DictPut(st.check_votes, k, DictPut(sub, tr, seen + count)),
               !.check_consolidated_votes =
                   OrderedPut(st.check_consolidated_votes, k, count)]

\* the entry loop adding 1 to the signature's total for each entry
ImportEntryTotalPlusOne(st, k, entry) ==
    LET tr == Transform(entry.transform.flipX, entry.transform.flipY,
                        entry.transform.rotation)
        count == entry.count
        sub == DictGet(st.check_votes, k, EmptyDict)
        seen == DictGet(sub, tr, 0)
    IN IF seen # 0
       THEN [st EXCEPT !.status = "AssertionError",
                       !.check_votes = DictPut(st.check_votes, k, DictPut(sub, tr, seen))]
       ELSE [st EXCEPT
               !.check_votes = DictPut(st.check_votes, k, DictPut(sub, tr, seen + count)),
               !.check_consolidated_votes =
                   OrderedPut(st.check_consolidated_votes, k,
                              st.check_consolidated_votes.map[k] + 1)]

\* the body of the loop over v["counts"], for one entry
ImportEntry(st, k, entry) ==
    LET tr == Transform(entry.transform.flipX, entry.transform.flipY,
                        entry.transform.rotation)
        count == entry.count
        sub == DictGet(st.check_votes, k, EmptyDict)
        seen == DictGet(sub, tr, 0)
    IN IF seen # 0
       THEN [st EXCEPT !.status = "AssertionError",
                       !.check_votes = DictPut(st.check_votes, k, DictPut(sub, tr, seen))]
       ELSE [st EXCEPT
               !.check_votes = DictPut(st.check_votes, k, DictPut(sub, tr, seen + count)),
               !.check_consolidated_votes =
                   OrderedPut(st.check_consolidated_votes, k,
                              st.check_consolidated_votes.map[k] + count)]

RECURSIVE ImportEntries(_, _, _, _)
ImportEntries(counts, j, k, st) ==
    IF j > Len(counts) \/ st.status # "ok" THEN st
    ELSE ImportEntries(counts, j + 1, k, ImportEntry(st, k, counts[j]))

\* the body of the loop over raw_votes, for one record
ImportRecord(st, v) ==
    LET k == hash_tile(v.tile)
        seen == DictGet(st.check_consolidated_votes.map, k, 0)
        st1 == [st EXCEPT !.tile_map = DictPut(st.tile_map, k, v.tile),
                          !.check_consolidated_votes =
                              OrderedPut(st.check_consolidated_votes, k, seen)]
    IN IF seen # 0 THEN [st1 EXCEPT !.status = "AssertionError"]
       ELSE ImportEntries(v.counts, 1, k, st1)

RECURSIVE ImportRecords(_, _, _, _)
\* for v in raw_votes: the iterations lo..hi in order, from st; an assertion
\* failure ends the loop
ImportRecords(raw, lo, hi, st) ==
    IF lo > hi \/ st.status # "ok" THEN st
    ELSE IF lo = hi THEN ImportRecord(st, raw[lo])
    ELSE LET mid == (lo + hi) \div 2
             left == ImportRecords(raw, lo, mid, st)
         IN ImportRecords(raw, mid + 1, hi, left)

\* status "ok": check_votes and check_consolidated_votes are returned;
\* "AssertionError": an assert failed.  tile_map is the argument after the call.
importVotes(raw, tmap) ==
    ImportRecords(raw, 1, Len(raw),
                  [status |-> "ok", check_votes |-> EmptyDict,
                   check_consolidated_votes |-> EmptyOrderedDict,
                   tile_map |-> tmap])

(***************************************************************************)
(* Export of a vote map to vote records.  The exporter is the C++ engine   *)
(* whose dump the script reads; it is not part of the Python sources and   *)
(* is modelled from its description: one record per signature, in the      *)
(* map's insertion order, with the representative tile and the             *)
(* (transform, count) pairs of the signature.                              *)
(***************************************************************************)
RECURSIVE ExportCounts(_, _)
ExportCounts(sub, i) ==
    IF i > Len(all_transforms) THEN << >>
    ELSE (IF all_transforms[i] \in DOMAIN sub
          THEN << [transform |-> all_transforms[i], count |-> sub[all_transforms[i]]] >>
          ELSE << >>)
         \o ExportCounts(sub, i + 1)

ExportVotes(vts, cons, tmap) ==
    [i \in 1..Len(cons.keys) |->
        [tile |-> tmap[cons.keys[i]],
         counts |-> ExportCounts(vts[cons.keys[i]], 1)]]

(***************************************************************************)
(* Inputs                                                                  *)
(***************************************************************************)
RECURSIVE SumSeq(_)
SumSeq(s) == IF s = << >> THEN 0 ELSE Head(s) + SumSeq(Tail(s))

\* slot sizes of one neighborhood with at most extra labels beyond one per slot
SlotShapes(extra) ==
    {sh \in [1..4 -> 1..(extra + 1)] : SumSeq(sh) <= 4 + extra}

\* neighbour labels of one digit, of both signs
OneDigitLabels == {1, -9}

\* label lists of a slot that may be empty
MalformedSlots == {<< >>} \cup {<< l >> : l \in Labels}

\* the holes whose suggestions are computed at the same time
Holes == {1, 2}

\* their neighborhoods: none, one, and two whose candidates share signatures
HoleInputs ==
    { << >>,
      << << << 1 >>, << 1 >>, << 1 >>, << 1 >> >> >>,
      << << << 1 >>, << -11 >>, << 1 >>, << 1 >> >> >>,
      << << << 1 >>, << -11 >>, << 1 >>, << 1 >> >>,
         << << -11 >>, << 1 >>, << 1 >>, << 1 >> >> >> }

\* vote records: tiles with equal and with different signatures, among them two
\* different tiles with the same signature
ImportTiles == { << 1, 11, 1, 1 >>, << 11, 1, 1, 1 >>, << -1, 1, 1, 1 >> }

ImportTransforms == { Transform(FALSE, FALSE, 0), Transform(TRUE, FALSE, 0) }

ImportEntriesSet == [transform : ImportTransforms, count : 0..MaxCount]

\* labels of the tiles given to hash_tile: one and two digits, both signs
HashLabels == {-11, -1, 1, 11}

TileLabels == (-MaxTileLabel)..MaxTileLabel

ScoreSet ==
    [total_votes : 0..MaxScoreField, untransformed_votes : 0..MaxScoreField,
     flipped_edges : 0..MaxScoreField]

\* transforms of a second application: the 16, and the rotation by 4 steps
SecondTransforms ==
    {all_transforms[i] : i \in DOMAIN all_transforms} \cup {Transform(FALSE, FALSE, 4)}

(***************************************************************************)
(* Actions                                                                 *)
(***************************************************************************)
EngineIdle ==
    /\ possibilities = None /\ votes = EmptyDict
    /\ consolidated_votes = EmptyOrderedDict /\ tile_map = EmptyDict
    /\ result = None /\ check_votes = EmptyDict
    /\ check_consolidated_votes = EmptyOrderedDict /\ recheck = None

ScoreIdle == scoreA = None /\ scoreB = None /\ gt = None
TransformIdle == tile = None /\ tr1 = None /\ tr2 = None /\ out1 = None /\ out2 = None
HashIdle == tileA = None /\ tileB = None /\ keyA = None /\ keyB = None
ProcsIdle == procs = << >>

\* votes, consolidated_votes, tile_map = consolidateVotes(neighborhood_labels)
ConsolidateVotes ==
    /\ pc = "start"
    /\ \E r \in {consolidateVotes(neighborhood_labels)} :
          /\ possibilities' = Some(Possibilities(neighborhood_labels))
          /\ votes' = r.votes
          /\ consolidated_votes' = r.consolidated_votes
          /\ tile_map' = r.tile_map
    /\ pc' = "consolidated"
    /\ UNCHANGED << neighborhood_labels, result, raw_votes, check_votes,
                    check_consolidated_votes, recheck >>
    /\ UNCHANGED << scoreVars, transformVars, hashVars, procVars >>

\* findBest2(votes, consolidated_votes, tile_map)
FindBest2Live ==
    /\ pc = "consolidated"
    /\ \E r \in {findBest2(votes, consolidated_votes, tile_map)} :
          /\ result' = Some(r)
          /\ votes' = r.votes
    /\ pc' = "found"
    /\ UNCHANGED << neighborhood_labels, possibilities, consolidated_votes, tile_map,
                    raw_votes, check_votes, check_consolidated_votes, recheck >>
    /\ UNCHANGED << scoreVars, transformVars, hashVars, procVars >>

\* the vote records of the live consolidation
Export ==
    /\ pc = "found"
    /\ raw_votes' = ExportVotes(votes, consolidated_votes, tile_map)
    /\ pc' = "exported"
    /\ UNCHANGED << neighborhood_labels, possibilities, votes, consolidated_votes,
                    tile_map, result, check_votes, check_consolidated_votes, recheck >>
    /\ UNCHANGED << scoreVars, transformVars, hashVars, procVars >>

\* check_votes, check_consolidated_votes = importVotes(data['votes'], tile_map)
ImportVotes ==
    /\ pc = "exported"
    /\ \E r \in {importVotes(raw_votes, tile_map)} :
          /\ check_votes' = r.check_votes
          /\ check_consolidated_votes' = r.check_consolidated_votes
          /\ tile_map' = r.tile_map
          /\ pc' = IF r.status = "ok" THEN "imported" ELSE "import_failed"
    /\ UNCHANGED << neighborhood_labels, possibilities, votes, consolidated_votes,
                    result, raw_votes, recheck >>
    /\ UNCHANGED << scoreVars, transformVars, hashVars, procVars >>

\* findBest2(check_votes, check_consolidated_votes, tile_map)
FindBest2Check ==
    /\ pc = "imported"
    /\ \E r \in {findBest2(check_votes, check_consolidated_votes, tile_map)} :
          /\ recheck' = Some(r)
          /\ check_votes' = r.votes
    /\ pc' = "done"
    /\ UNCHANGED << neighborhood_labels, possibilities, votes, consolidated_votes,
                    tile_map, result, raw_votes, check_consolidated_votes >>
    /\ UNCHANGED << scoreVars, transformVars, hashVars, procVars >>

\* scoreA > scoreB
Compare ==
    /\ pc = "start"
    /\ gt' = Some(ScoreGt(scoreA[1], scoreB[1]))
    /\ pc' = "compared"
    /\ UNCHANGED << scoreA, scoreB, engineVars, transformVars, hashVars, procVars >>

\* transform_tile(tile, tr1)
ApplyTransform ==
    /\ pc = "start"
    /\ out1' = Some(transform_tile(tile[1], tr1[1]))
    /\ pc' = "once"
    /\ UNCHANGED << tile, tr1, tr2, out2, engineVars, scoreVars, hashVars, procVars >>

\* transform_tile(out1, tr2) for a second transform tr2
ApplyAgain ==
    /\ pc = "once"
    /\ \E t \in SecondTransforms :
          /\ tr2' = Some(t)
          /\ out2' = Some(transform_tile(out1[1], t))
    /\ pc' = "twice"
    /\ UNCHANGED << tile, tr1, out1, engineVars, scoreVars, hashVars, procVars >>

\* transform_tile(tile, tr2) for another transform tr2 of the 16
ApplyOther ==
    /\ pc = "once"
    /\ \E i \in DOMAIN all_transforms :
          /\ tr2' = Some(all_transforms[i])
          /\ out2' = Some(transform_tile(tile[1], all_transforms[i]))
    /\ pc' = "other"
    /\ UNCHANGED << tile, tr1, out1, engineVars, scoreVars, hashVars, procVars >>

\* hash_tile(tileA), hash_tile(tileB)
HashTiles ==
    /\ pc = "start"
    /\ keyA' = Some(hash_tile(tileA[1]))
    /\ keyB' = Some(hash_tile(tileB[1]))
    /\ pc' = "hashed"
    /\ UNCHANGED << tileA, tileB, engineVars, scoreVars, transformVars, procVars >>

\* the initial values of findBest2's locals (lines 164-167)
FindBest2Locals(vts) ==
    [status |-> "ok", votes |-> vts,
     best |-> None, best_score |-> None,
     second_best |-> None, second_best_score |-> None]

\* One computation p of consolidateVotes followed by findBest2, a loop
\* iteration at a time.  Every name the two functions assign is a local of
\* the call; the only module-level object they read is all_transforms.
\* consolidateVotes up to the accumulation loop (lines 108-128)
ProcCandidates(p) ==
    /\ procs[p].pc = "start"
    /\ procs' = [procs EXCEPT
          ![p].pc = "tally",
          ![p].all_possibilities =
              AllPossibilities(Possibilities(procs[p].neighborhood_labels)),
          ![p].i = 1]
    /\ UNCHANGED << pc, engineVars, scoreVars, transformVars, hashVars >>

\* the accumulation over process 1's maps, whichever process runs
ProcCountVoteShared(p) ==
    /\ procs[p].pc = "tally"
    /\ procs[p].i <= Len(procs[p].all_possibilities)
    /\ procs' = [procs EXCEPT
          ![1].acc = CountVote(procs[1].acc,
                               procs[p].all_possibilities[procs[p].i].tile,
                               procs[p].all_possibilities[procs[p].i].tr),
          ![p].i = procs[p].i + 1]
    /\ UNCHANGED << pc, engineVars, scoreVars, transformVars, hashVars >>

\* one iteration of the accumulation loop (lines 129-133)
ProcCountVote(p) ==
    /\ procs[p].pc = "tally"
    /\ procs[p].i <= Len(procs[p].all_possibilities)
    /\ procs' = [procs EXCEPT
          ![p].acc = CountVote(procs[p].acc,
                               procs[p].all_possibilities[procs[p].i].tile,
                               procs[p].all_possibilities[procs[p].i].tr),
          ![p].i = procs[p].i + 1]
    /\ UNCHANGED << pc, engineVars, scoreVars, transformVars, hashVars >>

\* consolidateVotes returns and findBest2 is entered (lines 139, 164-167)
ProcConsolidated(p) ==
    /\ procs[p].pc = "tally"
    /\ procs[p].i > Len(procs[p].all_possibilities)
    /\ procs' = [procs EXCEPT
          ![p].pc = "scan",
          ![p].st = FindBest2Locals(procs[p].acc.votes),
          ![p].i = 1]
    /\ UNCHANGED << pc, engineVars, scoreVars, transformVars, hashVars >>

\* one iteration of findBest2's loop (lines 168-186)
ProcScanStep(p) ==
    /\ procs[p].pc = "scan"
    /\ procs[p].st.status = "ok"
    /\ procs[p].i <= Len(procs[p].acc.consolidated_votes.keys)
    /\ procs' = [procs EXCEPT
          ![p].st =
              LET k == procs[p].acc.consolidated_votes.keys[procs[p].i]
              IN ScanStep(procs[p].st, procs[p].st.votes,
                          procs[p].acc.consolidated_votes.map[k],
                          procs[p].acc.tile_map, k),
          ![p].i = procs[p].i + 1]
    /\ UNCHANGED << pc, engineVars, scoreVars, transformVars, hashVars >>

\* findBest2 returns, or its assert fails (lines 177, 188-193)
ProcReturn(p) ==
    /\ procs[p].pc = "scan"
    /\ IF procs[p].st.status = "ok"
       THEN procs[p].i > Len(procs[p].acc.consolidated_votes.keys)
       ELSE TRUE
    /\ procs' = [procs EXCEPT ![p].pc = "returned",
                              ![p].result = Some(procs[p].st)]
    /\ UNCHANGED << pc, engineVars, scoreVars, transformVars, hashVars >>

(***************************************************************************)
(* Specifications                                                          *)
(***************************************************************************)
\* the script: consolidate, select, export, import, select again
InitDeep ==
    \E n \in 0..MaxNeighborhoods :
        \E f \in [1..n -> [1..4 -> Labels]] :
            neighborhood_labels = [i \in 1..n |-> [j \in 1..4 |-> << f[i][j] >>]]

InitWide(extra) ==
    \E sh \in SlotShapes(extra) :
        \E s0 \in [1..sh[1] -> Labels], s1 \in [1..sh[2] -> Labels],
           s2 \in [1..sh[3] -> Labels], s3 \in [1..sh[4] -> Labels] :
            neighborhood_labels = << << s0, s1, s2, s3 >> >>

Init ==
    /\ pc = "start"
    /\ (InitDeep \/ InitWide(MaxExtra))
    /\ raw_votes = << >>
    /\ EngineIdle /\ ScoreIdle /\ TransformIdle /\ HashIdle /\ ProcsIdle

Next ==
    \/ ConsolidateVotes
    \/ FindBest2Live
    \/ Export
    \/ ImportVotes
    \/ FindBest2Check

Spec == Init /\ [][Next]_vars

\* consolidateVotes alone, with longer label lists in a single neighborhood
InitCandidates ==
    /\ pc = "start"
    /\ (InitDeep \/ InitWide(MaxCandidateExtra))
    /\ raw_votes = << >>
    /\ EngineIdle /\ ScoreIdle /\ TransformIdle /\ HashIdle /\ ProcsIdle

NextCandidates == ConsolidateVotes

SpecCandidates == InitCandidates /\ [][NextCandidates]_vars

\* consolidateVotes and findBest2 on neighborhoods whose slots may be empty
InitMalformed ==
    /\ pc = "start"
    /\ \E n \in 1..MaxNeighborhoods :
          \E f \in [1..n -> [1..4 -> MalformedSlots]] : neighborhood_labels = f
    /\ raw_votes = << >>
    /\ EngineIdle /\ ScoreIdle /\ TransformIdle /\ HashIdle /\ ProcsIdle

NextMalformed == ConsolidateVotes \/ FindBest2Live

SpecMalformed == InitMalformed /\ [][NextMalformed]_vars

\* two computations for independent holes, their steps interleaved
InitConcurrent ==
    /\ pc = "threads"
    /\ \E f \in [Holes -> HoleInputs] :
          procs = [p \in Holes |->
                     [pc |-> "start", neighborhood_labels |-> f[p],
                      all_possibilities |-> << >>, i |-> 0,
                      acc |-> [votes |-> EmptyDict,
                               consolidated_votes |-> EmptyOrderedDict,
                               tile_map |-> EmptyDict],
                      st |-> FindBest2Locals(EmptyDict), result |-> None]]
    /\ neighborhood_labels = << >> /\ raw_votes = << >>
    /\ EngineIdle /\ ScoreIdle /\ TransformIdle /\ HashIdle

NextConcurrent ==
    \E p \in Holes :
        \/ ProcCandidates(p)
        \/ ProcCountVote(p)
        \/ ProcConsolidated(p)
        \/ ProcScanStep(p)
        \/ ProcReturn(p)

SpecConcurrent == InitConcurrent /\ [][NextConcurrent]_vars

\* consolidateVotes on neighborhoods whose labels have one digit
InitOneDigit ==
    /\ pc = "start"
    /\ \/ \E n \in 0..MaxNeighborhoods :
            \E f \in [1..n -> [1..4 -> OneDigitLabels]] :
                neighborhood_labels = [i \in 1..n |-> [j \in 1..4 |-> << f[i][j] >>]]
       \/ \E sh \in SlotShapes(MaxExtra) :
            \E s0 \in [1..sh[1] -> OneDigitLabels], s1 \in [1..sh[2] -> OneDigitLabels],
               s2 \in [1..sh[3] -> OneDigitLabels], s3 \in [1..sh[4] -> OneDigitLabels] :
                neighborhood_labels = << << s0, s1, s2, s3 >> >>
    /\ raw_votes = << >>
    /\ EngineIdle /\ ScoreIdle /\ TransformIdle /\ HashIdle /\ ProcsIdle

SpecOneDigit == InitOneDigit /\ [][NextCandidates]_vars

\* importVotes and findBest2 on vote records of any content
InitImport ==
    /\ pc = "exported"
    /\ neighborhood_labels = << >>
    /\ \E n \in 0..MaxRecords :
        \E tl \in [1..n -> ImportTiles], lens \in [1..n -> 0..MaxEntries] :
            /\ SumSeq(lens) <= MaxEntries
            /\ \E es \in [1..SumSeq(lens) -> ImportEntriesSet] :
                raw_votes =
                    [i \in 1..n |->
                        [tile |-> tl[i],
                         counts |-> SubSeq(es, SumSeq(SubSeq(lens, 1, i - 1)) + 1,
                                           SumSeq(SubSeq(lens, 1, i)))]]
    /\ EngineIdle /\ ScoreIdle /\ TransformIdle /\ HashIdle /\ ProcsIdle

NextImport == ImportVotes \/ FindBest2Check

SpecImport == InitImport /\ [][NextImport]_vars

\* the script on neighborhoods, and its second half on vote records of any
\* content
InitEngine == Init \/ InitImport

SpecEngine == InitEngine /\ [][Next]_vars

\* Score.__gt__ on two scores
InitScore ==
    /\ pc = "start"
    /\ \E a \in ScoreSet, b \in ScoreSet : scoreA = Some(a) /\ scoreB = Some(b)
    /\ gt = None
    /\ neighborhood_labels = << >> /\ raw_votes = << >>
    /\ EngineIdle /\ TransformIdle /\ HashIdle /\ ProcsIdle

NextScore == Compare

SpecScore == InitScore /\ [][NextScore]_vars

\* transform_tile, once and twice
InitTransform ==
    /\ pc = "start"
    /\ \E t \in [1..4 -> TileLabels] : tile = Some(t)
    /\ \E i \in DOMAIN all_transforms : tr1 = Some(all_transforms[i])
    /\ tr2 = None /\ out1 = None /\ out2 = None
    /\ neighborhood_labels = << >> /\ raw_votes = << >>
    /\ EngineIdle /\ ScoreIdle /\ HashIdle /\ ProcsIdle

NextTransform == ApplyTransform \/ ApplyAgain

SpecTransform == InitTransform /\ [][NextTransform]_vars

\* transform_tile on one tile under two of the 16 transforms
NextPair == ApplyTransform \/ ApplyOther

SpecPair == InitTransform /\ [][NextPair]_vars

\* hash_tile on two tiles
InitHash ==
    /\ pc = "start"
    /\ \E a \in [1..4 -> HashLabels], b \in [1..4 -> HashLabels] :
          tileA = Some(a) /\ tileB = Some(b)
    /\ keyA = None /\ keyB = None
    /\ neighborhood_labels = << >> /\ raw_votes = << >>
    /\ EngineIdle /\ ScoreIdle /\ TransformIdle /\ ProcsIdle

NextHash == HashTiles

SpecHash == InitHash /\ [][NextHash]_vars

(***************************************************************************)
(* Properties                                                              *)
(***************************************************************************)
Identity == Transform(FALSE, FALSE, 0)

Selected == pc \in {"found", "exported", "imported", "import_failed", "done"}

Keys(cons) == {cons.keys[i] : i \in DOMAIN cons.keys}

\* C1: the vote records exported from a consolidation are imported without
\* an error, and findBest2 on the imported maps returns the same best
\* signature, best score, second-best signature and second-best score as
\* findBest2 on the live consolidation.
RoundTrip ==
    /\ pc # "import_failed"
    /\ pc = "done" =>
          /\ result[1].status = "ok"
          /\ recheck[1].status = "ok"
          /\ Returned(recheck[1]) = Returned(result[1])

RoundTripWitness ==
    /\ pc = "done"
    /\ Len(consolidated_votes.keys) >= 3
    /\ result[1].second_best # None
    /\ Len(raw_votes) = Len(consolidated_votes.keys)
    /\ Returned(recheck[1]) = Returned(result[1])

\* C2: after consolidateVotes the total vote counts of all signatures sum to
\* 16 times the number of candidates.
VoteTotal ==
    pc # "start" =>
        SumValues(consolidated_votes.map) = 16 * Len(possibilities[1])

VoteTotalWitness ==
    /\ pc = "consolidated"
    /\ Len(possibilities[1]) = 2
    /\ possibilities[1][1] = possibilities[1][2]
    /\ SumValues(consolidated_votes.map) = 32

\* C3: scoreA > scoreB exactly when scoreA has more total votes, or as many
\* total votes and fewer flipped edges, or as many of both and more
\* untransformed votes.
ScoreLexicographic ==
    pc = "compared" =>
        LET a == scoreA[1]
            b == scoreB[1]
        IN gt[1] <=>
             \/ a.total_votes > b.total_votes
             \/ a.total_votes = b.total_votes /\ a.flipped_edges < b.flipped_edges
             \/ /\ a.total_votes = b.total_votes
                /\ a.flipped_edges = b.flipped_edges
                /\ a.untransformed_votes > b.untransformed_votes

\* total votes (5, 5), flipped edges (1, 2): the first is better although the
\* second has more untransformed votes
ScoreLexicographicWitness ==
    /\ pc = "compared"
    /\ scoreA[1] = Score(5, 0, 1)
    /\ scoreB[1] = Score(5, 5, 2)
    /\ gt[1] = TRUE

\* the score findBest2 computes for signature k
ScoreOf(vts, cons, tmap, k) == ComputeScore(vts, cons.map[k], tmap, k)

\* r is a selection of the two best signatures of the map
Maximal(r, vts, cons, tmap) ==
    /\ r.status = "ok"
    /\ r.best # None
    /\ r.best[1] \in Keys(cons)
    /\ r.best_score[1] = ScoreOf(vts, cons, tmap, r.best[1])
    /\ \A k \in Keys(cons) : ~ScoreGt(ScoreOf(vts, cons, tmap, k), r.best_score[1])
    /\ \A k \in Keys(cons) \ {r.best[1]} :
          /\ r.second_best # None
          /\ r.second_best[1] \in Keys(cons)
          /\ r.second_best_score[1] = ScoreOf(vts, cons, tmap, r.second_best[1])
          /\ ~ScoreGt(ScoreOf(vts, cons, tmap, k), r.second_best_score[1])

\* C4: after findBest2 has scanned a non-empty vote map, no signature has a
\* score better than the returned best score, and no signature other than
\* the returned best has a score better than the returned second-best score.
BestTwoAreMaximal ==
    /\ (Selected /\ consolidated_votes.keys # << >>) =>
          Maximal(result[1], votes, consolidated_votes, tile_map)
    /\ (pc = "done" /\ check_consolidated_votes.keys # << >>) =>
          Maximal(recheck[1], check_votes, check_consolidated_votes, tile_map)

\* the best was found after the first signature (which it displaced), and the
\* second-best after the best (it beat the second-best only)
BestTwoAreMaximalWitness ==
    /\ pc = "found"
    /\ \E i, j \in DOMAIN consolidated_votes.keys :
          /\ 1 < i /\ i < j
          /\ result[1].best = Some(consolidated_votes.keys[i])
          /\ result[1].second_best = Some(consolidated_votes.keys[j])

\* C5: the untransformed votes of the score of a signature are the count
\* recorded for it under the identity transform, 0 when there is none.
UntransformedIsIdentityCount ==
    Selected =>
        /\ \A k \in Keys(consolidated_votes) :
              ScoreOf(votes, consolidated_votes, tile_map, k).untransformed_votes
                  = DictGet(votes[k], Identity, 0)
        /\ result[1].best # None =>
              result[1].best_score[1].untransformed_votes
                  = DictGet(votes[result[1].best[1]], Identity, 0)

\* the same (signature, transform) pair appears twice in the records
HasDuplicatePair(raw) ==
    \E i, j \in DOMAIN raw :
        \E a \in DOMAIN raw[i].counts, b \in DOMAIN raw[j].counts :
            /\ << i, a >> # << j, b >>
            /\ hash_tile(raw[i].tile) = hash_tile(raw[j].tile)
            /\ raw[i].counts[a].transform = raw[j].counts[b].transform

\* C6: importVotes never returns a vote map for records in which the same
\* (signature, transform) pair appears more than once.
ImportRejectsDuplicates ==
    HasDuplicatePair(raw_votes) => pc \notin {"imported", "done"}

\* C7: two tiles have the same signature exactly when they are equal.
SignatureInjective ==
    pc = "hashed" => ((keyA = keyB) <=> (tileA = tileB))

\* the candidates of one neighborhood, by position: slot 0 is the most
\* significant digit of the position and slot 3 the least significant one
RECURSIVE CandidatesBefore(_, _)
CandidatesBefore(labels, n) ==
    IF n = 1 THEN 0
    ELSE CandidatesBefore(labels, n - 1)
         + Len(labels[n - 1][1]) * Len(labels[n - 1][2])
           * Len(labels[n - 1][3]) * Len(labels[n - 1][4])

\* C8: the candidates are, for the neighborhoods in input order, the tiles
\* [-l0, -l1, -l2, -l3] of the cartesian product of the four label lists,
\* slot 0 outermost and slot 3 innermost.
CandidateOrder ==
    pc # "start" =>
        LET labels == neighborhood_labels
            poss == possibilities[1]
        IN /\ Len(poss) = CandidatesBefore(labels, Len(labels) + 1)
           /\ \A n \in DOMAIN labels :
                \A i0 \in DOMAIN labels[n][1], i1 \in DOMAIN labels[n][2],
                   i2 \in DOMAIN labels[n][3], i3 \in DOMAIN labels[n][4] :
                    poss[CandidatesBefore(labels, n)
                         + (((i0 - 1) * Len(labels[n][2]) + (i1 - 1))
                              * Len(labels[n][3]) + (i2 - 1))
                           * Len(labels[n][4]) + i3]
                      = << -labels[n][1][i0], -labels[n][2][i1],
                           -labels[n][3][i2], -labels[n][4][i3] >>

\* slot sizes (2, 1, 3, 1): 6 candidates
CandidateOrderWitness ==
    /\ pc = "consolidated"
    /\ Len(neighborhood_labels) = 1
    /\ Len(neighborhood_labels[1][1]) = 2
    /\ Len(neighborhood_labels[1][2]) = 1
    /\ Len(neighborhood_labels[1][3]) = 3
    /\ Len(neighborhood_labels[1][4]) = 1
    /\ neighborhood_labels[1][1][1] # neighborhood_labels[1][1][2]
    /\ Len(possibilities[1]) = 6

\* the transforms as the claim states them, on [e0, e1, e2, e3]
StatedFlipX(e) == [i \in 1..4 |-> CASE i = 1 -> e[3] [] i = 2 -> -e[2]
                                    [] i = 3 -> e[1] [] i = 4 -> -e[4]]
StatedFlipY(e) == [i \in 1..4 |-> CASE i = 1 -> -e[1] [] i = 2 -> e[4]
                                    [] i = 3 -> -e[3] [] i = 4 -> e[2]]
StatedRotate(e, r) == [i \in 1..4 |-> e[(((i - 1) + r) % 4) + 1]]

\* C9: transform_tile(tile, tr) is rotate(fy(fx(tile)), tr.rotation), fx
\* being flipX when tr.flipX and fy being flipY when tr.flipY.
TransformDefinition ==
    pc \in {"once", "twice"} =>
        LET fx == IF tr1[1].flipX THEN StatedFlipX(tile[1]) ELSE tile[1]
            fy == IF tr1[1].flipY THEN StatedFlipY(fx) ELSE fx
        IN out1[1] = StatedRotate(fy, tr1[1].rotation)

TransformDefinitionWitness ==
    /\ pc = "once"
    /\ tile[1] = << 1, 2, -1, 0 >>
    /\ tr1[1] = Transform(TRUE, TRUE, 1)
    /\ out1[1] = << 0, -1, -2, 1 >>

FlipXOnly == Transform(TRUE, FALSE, 0)
FlipYOnly == Transform(FALSE, TRUE, 0)

\* C10: flipX twice, flipY twice, and rotate(r) then rotate(4 - r) for r in
\* 0..3, each return the original tile.
TransformInvolution ==
    pc = "twice" =>
        /\ (tr1[1] = FlipXOnly /\ tr2[1] = FlipXOnly) => out2 = tile
        /\ (tr1[1] = FlipYOnly /\ tr2[1] = FlipYOnly) => out2 = tile
        /\ ( /\ ~tr1[1].flipX /\ ~tr1[1].flipY
             /\ tr2[1] = Transform(FALSE, FALSE, 4 - tr1[1].rotation) ) => out2 = tile

TransformInvolutionWitness ==
    /\ pc = "twice"
    /\ tile[1] = << 1, 2, -1, 0 >>
    /\ tr1[1] = FlipXOnly /\ tr2[1] = FlipXOnly
    /\ out1[1] = << -1, -2, 1, 0 >>
    /\ out2 = tile

\* C11: the list of transforms has 16 pairwise different elements, which are
\* all the triples of {FALSE, TRUE} x {FALSE, TRUE} x 0..3, and the list built
\* by the direct iteration over the triples is the same list in the same
\* order; every transform applied is one of them.
SymmetryComplete ==
    /\ Len(all_transforms) = 16
    /\ \A i, j \in DOMAIN all_transforms :
          i # j => all_transforms[i] # all_transforms[j]
    /\ {all_transforms[i] : i \in DOMAIN all_transforms}
          = [flipX : BOOLEAN, flipY : BOOLEAN, rotation : 0..3]
    /\ check_all_transforms = all_transforms
    /\ tr1 # None =>
          \E i \in DOMAIN check_all_transforms : tr1[1] = check_all_transforms[i]

\* the seventh transform of both lists is applied
SymmetryCompleteWitness ==
    /\ pc = "once"
    /\ tr1[1] = all_transforms[7]
    /\ tr1[1] = check_all_transforms[7]
    /\ tr1[1] = Transform(FALSE, TRUE, 2)

\* C12: with no neighborhoods there are no candidates, consolidateVotes
\* returns empty maps, and findBest2 on them returns without an error, with
\* no best, no best score, no second-best and no second-best score.
TrivialResult ==
    (pc # "start" /\ neighborhood_labels = << >>) =>
        /\ possibilities[1] = << >>
        /\ votes = EmptyDict
        /\ consolidated_votes = EmptyOrderedDict
        /\ tile_map = EmptyDict
        /\ Selected =>
              /\ result[1].status = "ok"
              /\ Returned(result[1]) = << None, None, None, None >>

TrivialResultWitness ==
    /\ pc = "found"
    /\ neighborhood_labels = << >>
    /\ result[1].status = "ok"
    /\ result[1].best = None

\* a slot of a neighborhood has no admissible label
HasEmptySlot(labels) ==
    \E n \in DOMAIN labels : \E j \in DOMAIN labels[n] : labels[n][j] = << >>

\* C13: a computation on neighborhoods one of which has an empty slot ends
\* in an error, never in a returned selection.
MalformedRejected ==
    (pc = "found" /\ HasEmptySlot(neighborhood_labels)) => result[1].status # "ok"

\* C14: no engine operation changes an argument: transform_tile leaves the
\* tile, consolidateVotes the neighborhoods, findBest2 the vote maps and the
\* tile map, and importVotes the vote records and the tile map it is given.
Purity ==
    [][ /\ pc = "start" =>
              (tile' = tile /\ neighborhood_labels' = neighborhood_labels)
        /\ pc = "consolidated" =>
              /\ votes' = votes
              /\ consolidated_votes' = consolidated_votes
              /\ tile_map' = tile_map
        /\ pc = "exported" =>
              (raw_votes' = raw_votes /\ tile_map' = tile_map)
        /\ pc = "imported" =>
              /\ check_votes' = check_votes
              /\ check_consolidated_votes' = check_consolidated_votes
              /\ tile_map' = tile_map ]_vars

\* consolidateVotes followed by findBest2, run alone
Alone(labels) ==
    LET c == consolidateVotes(labels)
    IN findBest2(c.votes, c.consolidated_votes, c.tile_map)

\* C15: each of two computations whose steps are interleaved returns the
\* best and second-best, with their scores, that it returns when run alone.
ConcurrentSameAsAlone ==
    \A p \in DOMAIN procs :
        procs[p].pc = "returned" =>
            LET alone == Alone(procs[p].neighborhood_labels)
            IN /\ procs[p].result[1].status = alone.status
               /\ Returned(procs[p].result[1]) = Returned(alone)

\* both have returned, each its own best
ConcurrentSameAsAloneWitness ==
    /\ DOMAIN procs = Holes
    /\ \A p \in Holes : procs[p].pc = "returned" /\ procs[p].result[1].best # None
    /\ Len(procs[1].neighborhood_labels) = 1
    /\ Len(procs[2].neighborhood_labels) = 2
    /\ procs[1].result[1].best # procs[2].result[1].best

\* the candidates whose image under tr has signature s
ProducedBy(poss, tr, s) ==
    {i \in DOMAIN poss : hash_tile(transform_tile(poss[i], tr)) = s}

\* C16: after consolidateVotes, votes[s][tr] is the number of candidates,
\* repeated ones counted each time, whose image under tr has signature s, for
\* every signature s and each of the 16 transforms tr; a pair without such a
\* candidate has no entry.
PerTransformTally ==
    pc = "consolidated" =>
        LET poss == possibilities[1]
        IN /\ DOMAIN votes = Keys(consolidated_votes)
           /\ \A i \in DOMAIN poss, j \in DOMAIN all_transforms :
                LET tr == all_transforms[j]
                    s == hash_tile(transform_tile(poss[i], tr))
                IN /\ s \in DOMAIN votes
                   /\ tr \in DOMAIN votes[s]
                   /\ votes[s][tr] = Cardinality(ProducedBy(poss, tr, s))
           /\ \A s \in DOMAIN votes :
                \A tr \in DOMAIN votes[s] :
                    /\ \E j \in DOMAIN all_transforms : tr = all_transforms[j]
                    /\ ProducedBy(poss, tr, s) # {}

\* three candidates: two of them have the same image under the identity, the
\* third another one
PerTransformTallyWitness ==
    /\ pc = "consolidated"
    /\ Len(possibilities[1]) = 3
    /\ \E s1, s2 \in DOMAIN votes :
          /\ Identity \in DOMAIN votes[s1] /\ votes[s1][Identity] = 2
          /\ Identity \in DOMAIN votes[s2] /\ votes[s2][Identity] = 1

\* the total recorded for each signature is the sum of its per-transform counts
Consistent(vts, cons) ==
    \A k \in Keys(cons) : cons.map[k] = SumValues(DictGet(vts, k, EmptyDict))

\* C17: in the maps returned by consolidateVotes and in the maps returned by
\* an importVotes that raised no error, the total of every signature is the
\* sum of its per-transform counts, and findBest2 on them ends without a
\* failed assertion.
ConsistencyCheckValid ==
    /\ pc # "start" => Consistent(votes, consolidated_votes)
    /\ result # None => result[1].status = "ok"
    /\ pc \in {"imported", "done"} =>
          Consistent(check_votes, check_consolidated_votes)
    /\ recheck # None => recheck[1].status = "ok"

\* vote records that are not an export: a signature with two per-transform
\* counts of 1 and another with a zero count, imported and scanned
ConsistencyCheckValidWitness ==
    /\ pc = "done"
    /\ votes = EmptyDict
    /\ recheck[1].status = "ok"
    /\ \E k1, k2 \in Keys(check_consolidated_votes) :
          /\ check_consolidated_votes.map[k1] = 2
          /\ Cardinality(DOMAIN check_votes[k1]) = 2
          /\ check_consolidated_votes.map[k2] = 0

\* the position in all_possibilities at which signature k is first produced
FirstProduced(all_poss, k) ==
    CHOOSE i \in DOMAIN all_poss :
        /\ hash_tile(all_poss[i].tile) = k
        /\ \A j \in 1..(i - 1) : hash_tile(all_poss[j].tile) # k

\* the returned best is the first signature, in the order of cons, whose
\* score no signature beats
FirstOfTheBest(r, vts, cons, tmap) ==
    \E b \in DOMAIN cons.keys :
        /\ r.best = Some(cons.keys[b])
        /\ \A a \in DOMAIN cons.keys :
              LET score == ScoreOf(vts, cons, tmap, cons.keys[a])
              IN /\ ~ScoreGt(score, r.best_score[1])
                 /\ a < b => score # r.best_score[1]

\* C18: the signatures of the vote map are in the order in which they are
\* first produced (candidates in order, the 16 transforms in order for each),
\* and the best returned by findBest2 is the first signature in that order
\* among those with the best score: a later signature with an equal score
\* does not displace it.
TieBreakByOrder ==
    /\ pc = "consolidated" =>
          LET all_poss == AllPossibilities(possibilities[1])
              keys == consolidated_votes.keys
          IN \A a \in 1..(Len(keys) - 1) :
                FirstProduced(all_poss, keys[a]) < FirstProduced(all_poss, keys[a + 1])
    /\ (pc = "found" /\ consolidated_votes.keys # << >>) =>
          FirstOfTheBest(result[1], votes, consolidated_votes, tile_map)
    /\ (pc = "done" /\ check_consolidated_votes.keys # << >>) =>
          FirstOfTheBest(recheck[1], check_votes, check_consolidated_votes, tile_map)

\* the best is not the first signature and a later signature has its score
TieBreakByOrderWitness ==
    /\ pc = "found"
    /\ \E b, c \in DOMAIN consolidated_votes.keys :
          /\ 1 < b /\ b < c
          /\ result[1].best = Some(consolidated_votes.keys[b])
          /\ ScoreOf(votes, consolidated_votes, tile_map, consolidated_votes.keys[c])
                = result[1].best_score[1]

\* C19, as stated: two different triples of the 16 give the same result on
\* every tile, those applied so far included.
TransformsRedundant ==
    pc = "other" =>
        \E i, j \in DOMAIN all_transforms :
            /\ all_transforms[i] # all_transforms[j]
            /\ \A t \in [1..4 -> TileLabels] \cup {tile[1]} :
                  transform_tile(t, all_transforms[i])
                      = transform_tile(t, all_transforms[j])

\* every label negated
Negated(t) == [i \in DOMAIN t |-> -t[i]]

\* the triple with both flips switched and two more rotation steps
Twin(tr) == Transform(~tr.flipX, ~tr.flipY, (tr.rotation + 2) % 4)

\* C19, amended: no two different triples give the same result on every
\* tile; a triple and its twin (both flips switched, two more rotation steps)
\* give results that differ by the negation of all four labels.
TransformsRedundantUpToSign ==
    pc = "other" =>
        /\ tr1 # tr2 =>
              \E t \in [1..4 -> TileLabels] :
                  transform_tile(t, tr1[1]) # transform_tile(t, tr2[1])
        /\ tr2[1] = Twin(tr1[1]) => out2[1] = Negated(out1[1])

TransformsRedundantUpToSignWitness ==
    /\ pc = "other"
    /\ tile[1] = << 1, 2, -1, 0 >>
    /\ tr1[1] = Transform(TRUE, TRUE, 0)
    /\ tr2[1] = Transform(FALSE, FALSE, 2)
    /\ out1[1] = << 1, 0, -1, -2 >>
    /\ out2[1] = << -1, 0, 1, 2 >>

\* C20: after consolidateVotes on neighborhoods with one-digit labels, the
\* image of the tile of every signature of the vote map under each of the 16
\* transforms has a signature of the vote map, with the same total.
OrbitInvariance ==
    pc = "consolidated" =>
        \A s \in Keys(consolidated_votes) :
            \A j \in DOMAIN all_transforms :
                LET g == hash_tile(transform_tile(tile_map[s], all_transforms[j]))
                IN /\ g \in Keys(consolidated_votes)
                   /\ consolidated_votes.map[g] = consolidated_votes.map[s]

\* two orbits with different totals: the candidates [-1,-1,-1,-1] and
\* [-1,-1,-1,9], whose 16 images have 4 and 16 signatures
OrbitInvarianceWitness ==
    /\ pc = "consolidated"
    /\ neighborhood_labels = << << << 1 >>, << 1 >>, << 1 >>, << 1, -9 >> >> >>
    /\ Len(consolidated_votes.keys) = 20
    /\ consolidated_votes.map[hash_tile(<< -1, -1, -1, -1 >>)] = 4
    /\ consolidated_votes.map[hash_tile(<< 1, 1, 1, 1 >>)] = 4
    /\ consolidated_votes.map[hash_tile(<< -1, -1, -1, 9 >>)] = 1
    /\ consolidated_votes.map[hash_tile(<< 1, -9, 1, 1 >>)] = 1

\* what findBest2 returned for the map cons: a best exactly when the map has
\* a signature, a second-best exactly when it has two, and the two different
RunnerUpOf(r, cons) ==
    r.status = "ok" =>
        /\ (r.best = None) <=> (Len(cons.keys) = 0)
        /\ (r.best_score = None) <=> (r.best = None)
        /\ (r.second_best = None) <=> (Len(cons.keys) < 2)
        /\ (r.second_best_score = None) <=> (r.second_best = None)
        /\ r.best # None => r.best[1] \in Keys(cons)
        /\ r.second_best # None =>
              (r.second_best[1] \in Keys(cons) /\ r.second_best # r.best)

\* C21: the second-best signature returned by findBest2 is never the best
\* one; it is absent exactly when the vote map has fewer than two
\* signatures, and the best is absent exactly when the map is empty.
DistinctRunnerUp ==
    /\ result # None => RunnerUpOf(result[1], consolidated_votes)
    /\ recheck # None => RunnerUpOf(recheck[1], check_consolidated_votes)

\* a map of two signatures: the second one scanned is the best and the first
\* one, which it displaced, the second-best
DistinctRunnerUpWitness ==
    /\ pc = "done"
    /\ Len(check_consolidated_votes.keys) = 2
    /\ recheck[1].status = "ok"
    /\ recheck[1].best = Some(check_consolidated_votes.keys[2])
    /\ recheck[1].second_best = Some(check_consolidated_votes.keys[1])

====
